---------------------------- MODULE Spec2Model ----------------------------
(***************************************************************************)
(* A model of rust-iptables (src/src/lib.rs): the version probe `new`, the *)
(* execution coordinator `IPTables::run` with its two serialization modes  *)
(* (native --wait, advisory flock on /var/run/xtables_old.lock), and the   *)
(* rule-management operations that funnel through `run`.                   *)
(*                                                                         *)
(* Strings are sequences of one-character strings, so that split, join,    *)
(* substring search, the version regex and integer parsing are computed.   *)
(***************************************************************************)
EXTENDS Integers, Sequences, FiniteSets, TLC

(***************************************************************************)
(* Bounds of the model.                                                    *)
(***************************************************************************)
NProcs == 2        \* cooperating processes calling into the library
MaxRetry == 2      \* the count of failed flock attempts saturates here (the code keeps none)
MaxChain == 2      \* rules a chain may hold before adding operations are no longer called
MaxMajor == 2      \* version components the fake tool prints: 0..MaxMajor
MaxMinor == 5
MaxPatch == 21

I32Max == 2147483647

Procs == 1 .. NProcs

(***************************************************************************)
(* Strings.                                                                *)
(***************************************************************************)
AsciiDigits == <<"0", "1", "2", "3", "4", "5", "6", "7", "8", "9">>

\* One non-ASCII decimal digit (ARABIC-INDIC DIGIT THREE): \d matches it,
\* str::parse::<i32> does not accept it.
UniDigit == "U+0663"

IsAsciiDigit(c) == \E i \in 1 .. 10 : AsciiDigits[i] = c

DigitValue(c) == (CHOOSE i \in 1 .. 10 : AsciiDigits[i] = c) - 1

\* The regex class \d (Unicode-aware in the regex crate).
IsDigit(c) == IsAsciiDigit(c) \/ c = UniDigit

\* Decimal formatting, as the tool prints a version component and as
\* i32::to_string prints a position.
RECURSIVE ToDigits(_)
ToDigits(n) ==
    IF n < 10 THEN <<AsciiDigits[n + 1]>>
    ELSE ToDigits(n \div 10) \o <<AsciiDigits[(n % 10) + 1]>>

\* str::parse::<i32> on a string without sign: every character an ASCII
\* digit, and no overflow of i32 (checked multiply and add).  -1 is Err.
RECURSIVE ParseFrom(_, _, _)
ParseFrom(s, i, acc) ==
    IF i > Len(s) THEN acc
    ELSE IF ~IsAsciiDigit(s[i]) THEN -1
    ELSE IF acc > (I32Max - DigitValue(s[i])) \div 10 THEN -1
    ELSE ParseFrom(s, i + 1, acc * 10 + DigitValue(s[i]))

\* Mutant of ParseI32: what does not parse taken as 0.
ParseI32Lenient(s) ==
    IF Len(s) = 0 \/ ParseFrom(s, 1, 0) = -1 THEN 0 ELSE ParseFrom(s, 1, 0)

ParseI32(s) == IF Len(s) = 0 THEN -1 ELSE ParseFrom(s, 1, 0)

\* str::split(" "): the pieces between single spaces (empty pieces kept).
RECURSIVE SplitFrom(_, _, _)
SplitFrom(s, i, cur) ==
    IF i > Len(s) THEN <<cur>>
    ELSE IF s[i] = " " THEN <<cur>> \o SplitFrom(s, i + 1, <<>>)
    ELSE SplitFrom(s, i + 1, Append(cur, s[i]))

Split(s) == SplitFrom(s, 1, <<>>)

\* The words of a rule joined by single spaces, as the tool's -S prints them.
RECURSIVE Join(_)
Join(ws) ==
    IF Len(ws) = 0 THEN <<>>
    ELSE IF Len(ws) = 1 THEN ws[1]
    ELSE ws[1] \o <<" ">> \o Join(Tail(ws))

\* str::contains: pat occurs in s as a substring.
Contains(s, pat) ==
    \E i \in 1 .. (Len(s) - Len(pat) + 1) : SubSeq(s, i, i + Len(pat) - 1) = pat

(***************************************************************************)
(* The version probe: new (lib.rs 40-60).                                  *)
(***************************************************************************)
\* The end of the longest run of \d characters starting at i (i - 1 if none).
RECURSIVE DigitRunEnd(_, _)
DigitRunEnd(s, i) ==
    IF i <= Len(s) /\ IsDigit(s[i]) THEN DigitRunEnd(s, i + 1) ELSE i - 1

\* A match of v(\d+)\.(\d+)\.(\d+) starting exactly at i: the three captured
\* groups, or <<>>.  \d+ is greedy and "." is no digit, so each group is a
\* maximal run of digits.
MatchAt(s, i) ==
    IF ~(i <= Len(s) /\ s[i] = "v") THEN <<>>
    ELSE LET e1 == DigitRunEnd(s, i + 1) IN
         IF e1 < i + 1 \/ e1 + 1 > Len(s) \/ s[e1 + 1] # "." THEN <<>>
         ELSE LET e2 == DigitRunEnd(s, e1 + 2) IN
              IF e2 < e1 + 2 \/ e2 + 1 > Len(s) \/ s[e2 + 1] # "." THEN <<>>
              ELSE LET e3 == DigitRunEnd(s, e2 + 2) IN
                   IF e3 < e2 + 2 THEN <<>>
                   ELSE << SubSeq(s, i + 1, e1),
                           SubSeq(s, e1 + 2, e2),
                           SubSeq(s, e2 + 2, e3) >>

\* Regex::captures: the leftmost match, or <<>> (None).
Captures(s) ==
    IF \E i \in 1 .. Len(s) : MatchAt(s, i) # <<>>
    THEN MatchAt(s, CHOOSE i \in 1 .. Len(s) :
                        /\ MatchAt(s, i) # <<>>
                        /\ \A j \in 1 .. (i - 1) : MatchAt(s, j) = <<>>)
    ELSE <<>>

CmdName(ipv6) == IF ipv6 THEN "ip6tables" ELSE "iptables"

\* Mutant of HasCheck: the patch threshold off by one.
HasCheckInclusive(v_major, v_minor, v_patch) ==
    (v_major > 1) \/ (v_major = 1 /\ v_minor > 4)
                  \/ (v_major = 1 /\ v_minor = 4 /\ v_patch >= 10)

\* Mutant of HasCheck: the patch threshold written with a digit too many.
HasCheckLate(v_major, v_minor, v_patch) ==
    (v_major > 1) \/ (v_major = 1 /\ v_minor > 4)
                  \/ (v_major = 1 /\ v_minor = 4 /\ v_patch > 100)

HasCheck(v_major, v_minor, v_patch) ==
    (v_major > 1) \/ (v_major = 1 /\ v_minor > 4)
                  \/ (v_major = 1 /\ v_minor = 4 /\ v_patch > 10)

\* Mutant of HasWait: the three comparisons made one component at a time.
HasWaitAnyComponent(v_major, v_minor, v_patch) ==
    (v_major > 1) \/ (v_minor > 4) \/ (v_patch > 19)

HasWait(v_major, v_minor, v_patch) ==
    (v_major > 1) \/ (v_major = 1 /\ v_minor > 4)
                  \/ (v_major = 1 /\ v_minor = 4 /\ v_patch > 19)

\* The IPTables value new builds.
IPTables(ipv6, v_major, v_minor, v_patch) ==
    [ cmd       |-> CmdName(ipv6),
      has_check |-> HasCheck(v_major, v_minor, v_patch),
      has_wait  |-> HasWait(v_major, v_minor, v_patch) ]


(***************************************************************************)
(* The wrapped tool.  A table holds chains, a chain holds rules, a rule is *)
(* the sequence of words it was given as.  The library only builds the     *)
(* argument vectors below and reads the exit status and standard output.   *)
(***************************************************************************)
W_t == <<"-", "t">>
W_A == <<"-", "A">>
W_C == <<"-", "C">>
W_D == <<"-", "D">>
W_E == <<"-", "E">>
W_F == <<"-", "F">>
W_I == <<"-", "I">>
W_N == <<"-", "N">>
W_R == <<"-", "R">>
W_S == <<"-", "S">>
W_X == <<"-", "X">>
W_wait == <<"-", "-", "w", "a", "i", "t">>

FilterTable == <<"f", "i", "l", "t", "e", "r">>
INPUT == <<"I", "N", "P", "U", "T">>
UserChain1 == <<"c", "1">>
UserChain2 == <<"c", "2">>

\* The chains a table may hold, in the order -S prints them.
ChainOrder == <<INPUT, UserChain1, UserChain2>>
ChainNames == {ChainOrder[i] : i \in 1 .. Len(ChainOrder)}

\* The rule strings callers pass: "-p t" and "-p t -j D".
Rule1 == <<"-", "p", " ", "t">>
Rule2 == <<"-", "p", " ", "t", " ", "-", "j", " ", "D">>
Rules == {Rule1, Rule2}

NoChain == [present |-> FALSE, rules |-> <<>>]
EmptyChain == [present |-> TRUE, rules |-> <<>>]

\* A fresh table: the built-in chain, empty; no user-defined chain.
EmptyTable == [c \in ChainNames |-> IF c = INPUT THEN EmptyChain ELSE NoChain]

\* The number of occurrences of rule words ws in a sequence of rules.
RECURSIVE Count(_, _)
Count(rules, ws) ==
    IF Len(rules) = 0 THEN 0
    ELSE (IF rules[1] = ws THEN 1 ELSE 0) + Count(Tail(rules), ws)

FirstIndex(rules, ws) == CHOOSE i \in 1 .. Len(rules) :
                            /\ rules[i] = ws
                            /\ \A j \in 1 .. (i - 1) : rules[j] # ws

RemoveAt(rules, i) == SubSeq(rules, 1, i - 1) \o SubSeq(rules, i + 1, Len(rules))

InsertAt(rules, i, ws) ==
    SubSeq(rules, 1, i - 1) \o <<ws>> \o SubSeq(rules, i, Len(rules))

\* What -S prints: per chain its declaration, then per chain its rules,
\* every line ended by a newline.
RECURSIVE ListDecls(_, _)
ListDecls(tbl, i) ==
    IF i > Len(ChainOrder) THEN <<>>
    ELSE LET c == ChainOrder[i] IN
         (IF ~tbl[c].present THEN <<>>
          ELSE IF c = INPUT
               THEN <<"-", "P", " ">> \o c \o <<" ", "A", "C", "C", "E", "P", "T", "\n">>
               ELSE <<"-", "N", " ">> \o c \o <<"\n">>)
         \o ListDecls(tbl, i + 1)

RECURSIVE ListRulesOf(_, _)
ListRulesOf(c, rules) ==
    IF Len(rules) = 0 THEN <<>>
    ELSE W_A \o <<" ">> \o c \o <<" ">> \o Join(rules[1]) \o <<"\n">>
         \o ListRulesOf(c, Tail(rules))

RECURSIVE ListRules(_, _)
ListRules(tbl, i) ==
    IF i > Len(ChainOrder) THEN <<>>
    ELSE ListRulesOf(ChainOrder[i], tbl[ChainOrder[i]].rules) \o ListRules(tbl, i + 1)

ListTable(tbl) == ListDecls(tbl, 1) \o ListRules(tbl, 1)

ToolOk(tbl, text) == [table |-> tbl, success |-> TRUE, stdout |-> text]
ToolFail(tbl) == [table |-> tbl, success |-> FALSE, stdout |-> <<>>]

\* The tool's run on an argument vector -t <table> <command> ..., a trailing
\* --wait removed: the new table, the exit status and the standard output.
ToolCommand(tbl, a) ==
    LET cmd == a[3]
        c == IF Len(a) >= 4 THEN a[4] ELSE <<>>
        known == c \in ChainNames
        there == known /\ tbl[c].present
        rs == IF there THEN tbl[c].rules ELSE <<>>
        put(new) == [tbl EXCEPT ![c] = [present |-> TRUE, rules |-> new]]
    IN
    CASE cmd = W_A ->
           IF there THEN ToolOk(put(Append(rs, SubSeq(a, 5, Len(a)))), <<>>)
           ELSE ToolFail(tbl)
      [] cmd = W_I ->
           LET n == ParseI32(a[5]) IN
           IF there /\ n >= 1 /\ n <= Len(rs) + 1
           THEN ToolOk(put(InsertAt(rs, n, SubSeq(a, 6, Len(a)))), <<>>)
           ELSE ToolFail(tbl)
      [] cmd = W_R ->
           LET n == ParseI32(a[5]) IN
           IF there /\ n >= 1 /\ n <= Len(rs)
           THEN ToolOk(put([rs EXCEPT ![n] = SubSeq(a, 6, Len(a))]), <<>>)
           ELSE ToolFail(tbl)
      [] cmd = W_D ->
           LET ws == SubSeq(a, 5, Len(a)) IN
           IF there /\ Count(rs, ws) > 0
           THEN ToolOk(put(RemoveAt(rs, FirstIndex(rs, ws))), <<>>)
           ELSE ToolFail(tbl)
      [] cmd = W_C ->
           IF there /\ Count(rs, SubSeq(a, 5, Len(a))) > 0
           THEN ToolOk(tbl, <<>>) ELSE ToolFail(tbl)
      [] cmd = W_S -> ToolOk(tbl, ListTable(tbl))
      [] cmd = W_N ->
           IF known /\ ~there THEN ToolOk(put(<<>>), <<>>) ELSE ToolFail(tbl)
      [] cmd = W_X ->
           IF there /\ c # INPUT /\ Len(rs) = 0
           THEN ToolOk([tbl EXCEPT ![c] = NoChain], <<>>) ELSE ToolFail(tbl)
      [] cmd = W_E ->
           LET d == a[5] IN
           IF there /\ c # INPUT /\ d \in ChainNames /\ ~tbl[d].present
           THEN ToolOk([tbl EXCEPT ![c] = NoChain, ![d] = tbl[c]], <<>>)
           ELSE ToolFail(tbl)
      [] cmd = W_F ->
           IF Len(a) = 3
           THEN ToolOk([x \in ChainNames |-> [tbl[x] EXCEPT !.rules = <<>>]], <<>>)
           ELSE IF there THEN ToolOk(put(<<>>), <<>>) ELSE ToolFail(tbl)
      [] OTHER -> ToolFail(tbl)

StripWait(a) ==
    IF Len(a) > 0 /\ a[Len(a)] = W_wait THEN SubSeq(a, 1, Len(a) - 1) ELSE a

\* The outcomes a launched tool may end with: what the command does on the
\* table, or, on a host where the tool may be refused (no privilege, kernel
\* refusal), an exit with a non-zero status and nothing done.
ToolOutcomes(tbl, a, refusals) ==
    {ToolCommand(tbl, StripWait(a))} \cup (IF refusals THEN {ToolFail(tbl)} ELSE {})

(***************************************************************************)
(* The state.                                                              *)
(***************************************************************************)
VARIABLES
    ipt,            \* per process: its IPTables handle (cmd, has_check, has_wait)
    pc,             \* per process: where it is in the operation and in run
    call,           \* per process: the public method called and its arguments
    phase,          \* per process: the inner method whose run call is in progress
    fd,             \* per process: file_lock of run: "none", "open", "locked"
    child,          \* per process: the argument vector of its live subprocess, or <<>>
    out,            \* per process: what the last run call returned
    ret,            \* per process: what the public method returned
    retries,        \* per process: failed flock attempts of the retry loop in progress
    launches,       \* per process: launch attempts of this run call
    table,          \* the firewall table all processes' subprocesses act on
    flaky,          \* the host may refuse a tool invocation whatever its command
    before,         \* per process, history: occurrences of the rule of its
                    \* append_replace call in its chain when the call was made
    npc,            \* new: where it is
    is_ipv6,        \* new: its argument
    version_output, \* new: standard output of the version query
    versions,       \* new: the regex captures
    version,        \* new: v_major, v_minor, v_patch as parsed so far
    made,           \* new: the value returned
    queries         \* new: version queries launched

procVars == <<ipt, pc, call, phase, fd, child, out, ret, retries, launches, table,
              flaky, before>>
newVars == <<npc, is_ipv6, version_output, versions, version, made, queries>>
vars == <<ipt, pc, call, phase, fd, child, out, ret, retries, launches, table,
          flaky, before, npc, is_ipv6, version_output, versions, version, made, queries>>

NoCall == [op |-> "none", chain |-> <<>>, rule |-> <<>>, position |-> 0,
           new_chain |-> <<>>]
NoOut == [kind |-> "none", success |-> FALSE, stdout |-> <<>>]
NoRet == [kind |-> "none", value |-> FALSE]
NoHandle == [kind |-> "none", cmd |-> "", has_check |-> FALSE, has_wait |-> FALSE]

\* Err values: "Io" is io::Error from File::create and Command::output, an
\* errno name is IPTError::Nix of flock's error, "Other" is IPTError::Other
\* of the *_unique methods.
NixErrnos == {"EAGAIN", "EINTR", "ENOLCK"}
ErrOut(k) == [kind |-> k, success |-> FALSE, stdout |-> <<>>]
OkOut(o) == [kind |-> "Ok", success |-> o.success, stdout |-> o.stdout]

(***************************************************************************)
(* The argument vectors the methods build.                                 *)
(***************************************************************************)
RuleArgs(flag, c) == <<W_t, FilterTable, flag, c.chain>> \o Split(c.rule)

PositionArgs(flag, c) ==
    <<W_t, FilterTable, flag, c.chain, ToDigits(c.position)>> \o Split(c.rule)

\* The args the inner method m of call c gives to run.
MethodArgs(m, c, has_check) ==
    CASE m = "exists" ->
           IF ~has_check THEN <<W_t, FilterTable, W_S>> ELSE RuleArgs(W_C, c)
      [] m = "insert" -> PositionArgs(W_I, c)
      [] m = "replace" -> PositionArgs(W_R, c)
      [] m = "append" -> RuleArgs(W_A, c)
      [] m = "delete" -> RuleArgs(W_D, c)
      [] m = "new_chain" -> <<W_t, FilterTable, W_N, c.chain>>
      [] m = "flush_chain" -> <<W_t, FilterTable, W_F, c.chain>>
      [] m = "rename_chain" -> <<W_t, FilterTable, W_E, c.chain, c.new_chain>>
      [] m = "delete_chain" -> <<W_t, FilterTable, W_X, c.chain>>
      [] m = "flush_table" -> <<W_t, FilterTable, W_F>>

\* Mutant of RunArgv: the wait flag put first.
RunArgvFlagFirst(args, has_wait) == IF has_wait THEN <<W_wait>> \o args ELSE args

\* The argument vector run launches the tool with.
RunArgv(args, has_wait) == IF has_wait THEN Append(args, W_wait) ELSE args

\* The pattern exists_old_version looks for in the listing.
OldPattern(c) == W_A \o <<" ">> \o c.chain \o <<" ">> \o c.rule

(***************************************************************************)
(* run (lib.rs 236-270).                                                   *)
(***************************************************************************)
\* Mutant of RunEntry: the tool launched straight away, lock or no lock.
RunEntryUnlocked(h) == "spawn"

\* The first statement of run for a handle: the branch on has_wait.
RunEntry(h) == IF h.has_wait THEN "spawn" ELSE "create"

\* Mutant of Try: the failed statement tried again.
TryAgain(ok, here, cont) == IF ok THEN cont ELSE here

\* A Result followed by `?`: go on when Ok, return the error when Err.
Try(ok, here, cont) == IF ok THEN cont ELSE "ret"

\* Mutant of DropFile: the descriptor leaked, open and locked as it was.
KeepFile(f) == f

\* file_lock after run has returned: dropped, which closes the descriptor
\* and with it releases the lock.
DropFile(f) == "none"

\* Mutant of SelfAfter: run gives up on --wait after a call.
SelfDowngraded(h) == [h EXCEPT !.has_wait = FALSE]

\* &self: the handle as a method leaves it.
SelfAfter(h) == h

\* Mutant of FlockOutcomes: the lock taken shared, so never refused.
FlockOutcomesShared(p) == {"Ok", "EINTR", "ENOLCK"}

\* Mutant of FlockOutcomes: a queued lock, refused also while another caller
\* has been retrying for longer.
FlockOutcomesQueued(p) ==
    (IF \E q \in Procs \ {p} :
           \/ fd[q] = "locked"
           \/ pc[q] = "flock" /\ retries[q] > retries[p]
     THEN {"EAGAIN"} ELSE {"Ok"})
    \cup {"EINTR", "ENOLCK"}

\* Mutant of FlockOutcomes: the lock refused while another process merely
\* has the lock file open.
FlockOutcomesByOpen(p) ==
    (IF \E q \in Procs \ {p} : fd[q] # "none" THEN {"EAGAIN"} ELSE {"Ok"})
    \cup {"EINTR", "ENOLCK"}

\* flock(fd, LOCK_EX | LOCK_NB) by process p: EAGAIN while another open file
\* description holds the lock; any attempt may also fail otherwise.
FlockOutcomes(p) ==
    (IF \E q \in Procs \ {p} : fd[q] = "locked" THEN {"EAGAIN"} ELSE {"Ok"})
    \cup {"EINTR", "ENOLCK"}

\* Mutant of Retryable: every error retried.
RetryableAny(errno) == TRUE

\* The errno the retry loop retries on.
Retryable(errno) == errno = "EAGAIN"

\* A method calls run: phase m begins.
BeginRun(p, m) ==
    /\ phase' = [phase EXCEPT ![p] = m]
    /\ pc' = [pc EXCEPT ![p] = RunEntry(ipt[p])]
    /\ out' = [out EXCEPT ![p] = NoOut]
    /\ retries' = [retries EXCEPT ![p] = 0]
    /\ launches' = [launches EXCEPT ![p] = 0]

\* run returns o: its locals go out of scope.
RunReturn(p, o) ==
    /\ out' = [out EXCEPT ![p] = o]
    /\ pc' = [pc EXCEPT ![p] = "ret"]
    /\ fd' = [fd EXCEPT ![p] = DropFile(fd[p])]
    /\ child' = [child EXCEPT ![p] = <<>>]
    /\ ipt' = [ipt EXCEPT ![p] = SelfAfter(ipt[p])]

\* File::create("/var/run/xtables_old.lock")?
Create(p) ==
    /\ pc[p] = "create"
    /\ \E ok \in BOOLEAN :
         LET nxt == Try(ok, "create", "flock") IN
         IF nxt = "ret"
         THEN /\ RunReturn(p, ErrOut("Io"))
              /\ UNCHANGED <<retries>>
         ELSE /\ pc' = [pc EXCEPT ![p] = nxt]
              /\ fd' = [fd EXCEPT ![p] = IF ok THEN "open" ELSE fd[p]]
              /\ UNCHANGED <<ipt, child, out, retries>>
    /\ UNCHANGED <<call, phase, ret, launches, table, flaky, before>>
    /\ UNCHANGED newVars

\* One turn of the retry loop: flock, then the match on its result.
Flock(p) ==
    /\ pc[p] = "flock"
    /\ \E r \in FlockOutcomes(p) :
         IF r = "Ok"
         THEN /\ fd' = [fd EXCEPT ![p] = "locked"]
              /\ pc' = [pc EXCEPT ![p] = "spawn"]
              /\ retries' = [retries EXCEPT ![p] = 0]
              /\ UNCHANGED <<ipt, child, out>>
         ELSE IF Retryable(r)
         THEN /\ retries' = [retries EXCEPT
                                ![p] = IF @ < MaxRetry THEN @ + 1 ELSE @]
              /\ UNCHANGED <<ipt, pc, fd, child, out>>
         ELSE /\ RunReturn(p, ErrOut(r))
              /\ retries' = [retries EXCEPT ![p] = 0]
    /\ UNCHANGED <<call, phase, ret, launches, table, flaky, before>>
    /\ UNCHANGED newVars

\* Command::output, first half: the launch of the tool.
Spawn(p) ==
    /\ pc[p] = "spawn"
    /\ launches' = [launches EXCEPT ![p] = @ + 1]
    /\ \E ok \in BOOLEAN :
         LET nxt == Try(ok, "spawn", "wait") IN
         IF nxt = "ret"
         THEN RunReturn(p, ErrOut("Io"))
         ELSE /\ pc' = [pc EXCEPT ![p] = nxt]
              /\ child' = [child EXCEPT
                   ![p] = IF ok
                          THEN RunArgv(MethodArgs(phase[p], call[p], ipt[p].has_check),
                                       ipt[p].has_wait)
                          ELSE @]
              /\ UNCHANGED <<ipt, fd, out>>
    /\ UNCHANGED <<call, phase, ret, retries, table, flaky, before>>
    /\ UNCHANGED newVars

\* Command::output, second half: the tool runs to its end; then the drop of
\* file_lock and Ok(output).
Wait(p) ==
    /\ pc[p] = "wait"
    /\ \E o \in ToolOutcomes(table, child[p], flaky) :
         /\ table' = o.table
         /\ RunReturn(p, OkOut(o))
    /\ UNCHANGED <<call, phase, ret, retries, launches, flaky, before>>
    /\ UNCHANGED newVars

(***************************************************************************)
(* The public methods (lib.rs 62-225).                                     *)
(***************************************************************************)
SingleOps == {"exists", "insert", "replace", "append", "delete", "new_chain",
              "flush_chain", "rename_chain", "delete_chain", "flush_table"}
UniqueOps == {"insert_unique", "append_unique"}
AddingOps == {"insert", "append", "insert_unique", "append_unique", "append_replace"}

OkRet(b) == [kind |-> "Ok", value |-> b]
ErrRet(k) == [kind |-> k, value |-> FALSE]

\* Mutant of Wrap: a non-zero exit status turned into an error.
WrapStrict(o) ==
    IF o.kind = "Ok" /\ o.success THEN [kind |-> "Ok", value |-> TRUE]
    ELSE [kind |-> IF o.kind = "Ok" THEN "Other" ELSE o.kind, value |-> FALSE]

\* match self.run(..) { Ok(output) => Ok(output.status.success()), Err(err) => Err(err) }
Wrap(o) == IF o.kind = "Ok" THEN OkRet(o.success) ELSE ErrRet(o.kind)

\* exists_old_version: the listing contains "-A <chain> <rule>".
WrapOld(o, c) ==
    IF o.kind = "Ok" THEN OkRet(Contains(o.stdout, OldPattern(c))) ELSE ErrRet(o.kind)

\* The IPTResult<bool> of inner method m of call c, from what run returned.
MethodResult(m, c, o, has_check) ==
    IF m = "exists" /\ ~has_check THEN WrapOld(o, c) ELSE Wrap(o)

\* Mutant of FirstMethod: append_replace appends without looking first.
FirstMethodBlind(op) ==
    IF op \in UniqueOps \cup {"delete_all"} THEN "exists"
    ELSE IF op = "append_replace" THEN "append"
    ELSE op

\* The method a public method calls first.
FirstMethod(op) ==
    IF op \in UniqueOps \cup {"append_replace", "delete_all"} THEN "exists"
    ELSE op

Goto(m) == [next |-> m, ret |-> NoRet]
Return(r) == [next |-> "return", ret |-> r]

\* What public method op does when its inner method m has returned r: call
\* another inner method, or return.
OpStep(op, m, r) ==
    CASE op = "insert_unique" /\ m = "exists" ->
           IF r.kind # "Ok" THEN Return(r)
           ELSE IF r.value THEN Return(ErrRet("Other")) ELSE Goto("insert")
      [] op = "append_unique" /\ m = "exists" ->
           IF r.kind # "Ok" THEN Return(r)
           ELSE IF r.value THEN Return(ErrRet("Other")) ELSE Goto("append")
      [] op = "append_replace" /\ m = "exists" ->
           IF r.kind # "Ok" THEN Return(r)
           ELSE IF r.value THEN Goto("delete") ELSE Goto("append")
      [] op = "append_replace" /\ m = "delete" ->
           IF r.kind # "Ok" THEN Return(r) ELSE Goto("append")
      [] op = "delete_all" /\ m = "exists" ->
           IF r.kind # "Ok" THEN Return(r)
           ELSE IF r.value THEN Goto("delete") ELSE Return(OkRet(TRUE))
      [] op = "delete_all" /\ m = "delete" ->
           IF r.kind # "Ok" THEN Return(r) ELSE Goto("exists")
      [] OTHER -> Return(r)

\* A process calls a public method.
CallOp(p, c) ==
    /\ pc[p] = "idle"
    /\ call' = [call EXCEPT ![p] = c]
    /\ BeginRun(p, FirstMethod(c.op))
    /\ before' = [before EXCEPT
                      ![p] = IF c.op = "append_replace"
                             THEN Count(table[c.chain].rules, Split(c.rule))
                             ELSE 0]
    /\ UNCHANGED <<ipt, fd, child, ret, table, flaky>>
    /\ UNCHANGED newVars

\* run has returned into the method that called it.
OpCont(p) ==
    /\ pc[p] = "ret"
    /\ LET r == MethodResult(phase[p], call[p], out[p], ipt[p].has_check)
           s == OpStep(call[p].op, phase[p], r)
       IN IF s.next = "return"
          THEN /\ ret' = [ret EXCEPT ![p] = s.ret]
               /\ pc' = [pc EXCEPT ![p] = "done"]
               /\ phase' = [phase EXCEPT ![p] = "none"]
               /\ out' = [out EXCEPT ![p] = NoOut]
               /\ UNCHANGED <<retries, launches>>
          ELSE /\ BeginRun(p, s.next)
               /\ UNCHANGED ret
    /\ UNCHANGED <<ipt, call, fd, child, table, flaky, before>>
    /\ UNCHANGED newVars

\* The caller takes the result.
Finish(p) ==
    /\ pc[p] = "done"
    /\ pc' = [pc EXCEPT ![p] = "idle"]
    /\ call' = [call EXCEPT ![p] = NoCall]
    /\ ret' = [ret EXCEPT ![p] = NoRet]
    /\ retries' = [retries EXCEPT ![p] = 0]
    /\ launches' = [launches EXCEPT ![p] = 0]
    /\ before' = [before EXCEPT ![p] = 0]
    /\ UNCHANGED <<ipt, phase, fd, child, out, table, flaky>>
    /\ UNCHANGED newVars

(***************************************************************************)
(* The calls the processes make.                                           *)
(***************************************************************************)
Positions == 1 .. MaxChain

RuleCall(op, rule, position) ==
    [op |-> op, chain |-> INPUT, rule |-> rule, position |-> position,
     new_chain |-> <<>>]

ChainCall(op, chain, new_chain) ==
    [op |-> op, chain |-> chain, rule |-> <<>>, position |-> 0,
     new_chain |-> new_chain]

RuleCalls ==
    {RuleCall(op, r, 0) : op \in {"exists", "append", "append_unique",
                                   "append_replace", "delete", "delete_all"},
                          r \in Rules}
    \cup {RuleCall(op, r, n) : op \in {"insert", "insert_unique", "replace"},
                               r \in Rules, n \in Positions}

ChainCalls ==
    { ChainCall("new_chain", UserChain1, <<>>),
      ChainCall("delete_chain", UserChain1, <<>>),
      ChainCall("rename_chain", UserChain1, UserChain2),
      ChainCall("rename_chain", UserChain2, UserChain1),
      ChainCall("flush_chain", INPUT, <<>>),
      ChainCall("flush_table", <<>>, <<>>) }

\* A call that adds a rule is made only while the chain has room.
Room(c) == c.op \in AddingOps => Len(table[INPUT].rules) < MaxChain

AllCalls == {c \in RuleCalls \cup ChainCalls : Room(c)}

\* The calls of the concurrent specification: one rule, appended and flushed.
CoreCalls == {c \in {RuleCall("append", Rule1, 0), ChainCall("flush_table", <<>>, <<>>)} :
                 Room(c)}

\* The calls of the specification of the *_unique methods.
UniqueCalls == {c \in { RuleCall("append_unique", Rule1, 0),
                        RuleCall("insert_unique", Rule1, 1) } : Room(c)}

\* The tool versions of the host: no -C and no --wait; -C only; both.
HostVersions == {<<1, 4, 10>>, <<1, 4, 11>>, <<1, 4, 20>>}

\* No call in progress.
ProcIdle ==
    /\ pc = [p \in Procs |-> "idle"]
    /\ call = [p \in Procs |-> NoCall]
    /\ phase = [p \in Procs |-> "none"]
    /\ fd = [p \in Procs |-> "none"]
    /\ child = [p \in Procs |-> <<>>]
    /\ out = [p \in Procs |-> NoOut]
    /\ ret = [p \in Procs |-> NoRet]
    /\ retries = [p \in Procs |-> 0]
    /\ launches = [p \in Procs |-> 0]
    /\ before = [p \in Procs |-> 0]
    /\ table = EmptyTable

\* Every process holds a handle new made on this host.
ProcInit ==
    /\ \E v \in HostVersions :
         ipt = [p \in Procs |-> IPTables(FALSE, v[1], v[2], v[3])]
    /\ flaky \in BOOLEAN
    /\ ProcIdle

NewOff ==
    /\ npc = "off"
    /\ is_ipv6 = FALSE
    /\ version_output = [status |-> "none", stdout |-> <<>>]
    /\ versions = <<>>
    /\ version = <<>>
    /\ made = NoHandle
    /\ queries = 0

Init == ProcInit /\ NewOff

\* Concurrent callers of run.
Next ==
    \E p \in Procs :
        \/ \E c \in CoreCalls : CallOp(p, c)
        \/ Create(p)
        \/ Flock(p)
        \/ Spawn(p)
        \/ Wait(p)
        \/ OpCont(p)
        \/ Finish(p)

Spec == Init /\ [][Next]_vars

\* Every public method, one call at a time.
NextOps ==
    \E p \in Procs :
        \/ /\ \A q \in Procs : pc[q] = "idle"
           /\ \E c \in AllCalls : CallOp(p, c)
        \/ Create(p)
        \/ Flock(p)
        \/ Spawn(p)
        \/ Wait(p)
        \/ OpCont(p)
        \/ Finish(p)

SpecOps == Init /\ [][NextOps]_vars

\* Concurrent callers of append_unique and insert_unique.
NextUnique ==
    \E p \in Procs :
        \/ \E c \in UniqueCalls : CallOp(p, c)
        \/ Create(p)
        \/ Flock(p)
        \/ Spawn(p)
        \/ Wait(p)
        \/ OpCont(p)
        \/ Finish(p)

SpecUnique == Init /\ [][NextUnique]_vars

(***************************************************************************)
(* new, step by step (lib.rs 40-60), against a fake tool.                  *)
(***************************************************************************)
I32MaxDigits == <<"2", "1", "4", "7", "4", "8", "3", "6", "4", "7">>
I32OverDigits == <<"2", "1", "4", "7", "4", "8", "3", "6", "4", "8">>

\* Component texts no i32 holds, or that hold the largest one.
OddComponents == {I32MaxDigits, I32OverDigits, <<UniDigit>>}

VersionText(a, b, c) == <<"v">> \o a \o <<".">> \o b \o <<".">> \o c

\* What the fake tool prints for --version: a version text or a text with
\* none, between a head and a tail.
VersionBodies ==
    { VersionText(a, b, c) :
        a \in {ToDigits(n) : n \in 0 .. MaxMajor} \cup OddComponents,
        b \in {ToDigits(n) : n \in 0 .. MaxMinor} \cup OddComponents,
        c \in {ToDigits(n) : n \in 0 .. MaxPatch} \cup OddComponents }
    \cup { <<"n", "o", " ", "v", "e", "r", "s", "i", "o", "n", " ", "h", "e", "r", "e">>,
           <<"v", "1", ".", "4">>,
           <<"1", ".", "4", ".", "2", "0">>,
           <<"v", "1", ".", ".", "4">>,
           <<"v", ".", "4", ".", "2", "0">>,
           <<>> }

VersionHeads == { <<>>, <<"i", "p", "t", " ">>, <<"v", "1", ".", " ">> }
VersionTails == { <<>>, <<" ", "(", "l", ")", "\n">>, <<"0">> }

VersionOutputs == {h \o b \o t : h \in VersionHeads, b \in VersionBodies, t \in VersionTails}

NoOutput == [status |-> "none", stdout |-> <<>>]

\* What new returns: Err of some kind, or Ok with the handle.
NewErr(k) == [kind |-> k, cmd |-> "", has_check |-> FALSE, has_wait |-> FALSE]
NewOk(h) == [kind |-> "Ok", cmd |-> h.cmd, has_check |-> h.has_check,
             has_wait |-> h.has_wait]

\* Command::new(cmd).arg("--version").output()?
NewQuery ==
    /\ npc = "query"
    /\ queries' = queries + 1
    /\ \E launched \in BOOLEAN, text \in VersionOutputs :
         LET nxt == Try(launched, "query", "captures") IN
         /\ npc' = IF nxt = "ret" THEN "err" ELSE nxt
         /\ version_output' = IF launched THEN [status |-> "exited", stdout |-> text]
                              ELSE [status |-> "failed", stdout |-> <<>>]
         /\ made' = IF nxt = "ret" THEN NewErr("Io") ELSE made
    /\ UNCHANGED <<is_ipv6, versions, version>>
    /\ UNCHANGED procVars

\* re.captures(&version_string).ok_or("invalid version number")?
NewCaptures ==
    /\ npc = "captures"
    /\ LET caps == Captures(version_output.stdout)
           nxt == Try(caps # <<>>, "captures", "parse")
       IN /\ versions' = caps
          /\ npc' = IF nxt = "ret" THEN "err" ELSE nxt
          /\ made' = IF nxt = "ret" THEN NewErr("Other") ELSE made
    /\ UNCHANGED <<is_ipv6, version_output, version, queries>>
    /\ UNCHANGED procVars

\* versions.get(k) ... .as_str().parse::<i32>()? for k = 1, 2, 3, in order.
NewParse ==
    /\ npc = "parse"
    /\ LET k == Len(version) + 1
           n == ParseI32(versions[k])
           nxt == Try(n # -1, "parse", IF k = 3 THEN "build" ELSE "parse")
       IN /\ version' = IF n # -1 THEN Append(version, n) ELSE version
          /\ npc' = IF nxt = "ret" THEN "err" ELSE nxt
          /\ made' = IF nxt = "ret" THEN NewErr("Parse") ELSE made
    /\ UNCHANGED <<is_ipv6, version_output, versions, queries>>
    /\ UNCHANGED procVars

\* Ok(IPTables { cmd, has_check, has_wait })
NewBuild ==
    /\ npc = "build"
    /\ made' = NewOk(IPTables(is_ipv6, version[1], version[2], version[3]))
    /\ npc' = "ok"
    /\ UNCHANGED <<is_ipv6, version_output, versions, version, queries>>
    /\ UNCHANGED procVars

InitNew ==
    /\ ipt = [p \in Procs |-> IPTables(FALSE, 0, 0, 0)]
    /\ flaky = FALSE
    /\ ProcIdle
    /\ npc = "query"
    /\ is_ipv6 \in BOOLEAN
    /\ version_output = NoOutput
    /\ versions = <<>>
    /\ version = <<>>
    /\ made = NoHandle
    /\ queries = 0

NextNew == NewQuery \/ NewCaptures \/ NewParse \/ NewBuild

SpecNew == InitNew /\ [][NextNew]_vars

(***************************************************************************)
(* Properties.                                                             *)
(***************************************************************************)
\* u is strictly greater than v in the lexicographic order of triples.
LexGreater(u, v) ==
    \E i \in 1 .. 3 : u[i] > v[i] /\ \A j \in 1 .. (i - 1) : u[j] = v[j]

LockMode(p) == ~ipt[p].has_wait
Holders == {p \in Procs : fd[p] = "locked"}
Returned(p) == pc[p] \in {"idle", "ret", "done"}

\* C1: in advisory-lock mode at most one process holds the exclusive lock in
\* any reachable state, and no two subprocesses launched by run are alive at
\* the same time.
C1_MutualExclusion ==
    /\ Cardinality(Holders) <= 1
    /\ Cardinality({p \in Procs : LockMode(p) /\ child[p] # <<>>}) <= 1
    /\ \A p \in Procs : LockMode(p) /\ child[p] # <<>> => p \in Holders

\* C1 witness: one process runs its subprocess under the lock while another
\* has been refused the lock.
C1_Witness ==
    \E p, q \in Procs :
        /\ p # q /\ LockMode(p) /\ fd[p] = "locked" /\ child[p] # <<>>
        /\ pc[q] = "flock" /\ retries[q] >= 1

\* C2: a run call in advisory-lock mode that has returned, by whatever path,
\* holds no lock, and a call attempting the lock while every other call has
\* returned is not refused with would-block.
C2_ReleasedOnReturn ==
    /\ \A p \in Procs : LockMode(p) /\ Returned(p) => fd[p] = "none"
    /\ \A p \in Procs :
         (pc[p] = "flock" /\ \A q \in Procs \ {p} : Returned(q))
            => "Ok" \in FlockOutcomes(p)

\* C2 witness: a call has returned the error of a failed launch, made while
\* it held the lock, and another process holds the lock now.
C2_Witness ==
    \E p, q \in Procs :
        /\ p # q /\ LockMode(p) /\ pc[p] = "ret"
        /\ out[p].kind = "Io" /\ launches[p] = 1
        /\ fd[q] = "locked"

\* C3: for every version triple new has parsed, has_check is true exactly when
\* the triple is lexicographically above (1,4,10), has_wait exactly when it is
\* above (1,4,19); 1.4.10, 1.4.11, 1.4.19 and 1.4.20 give the named flags.
C3_Thresholds ==
    npc = "ok" =>
        /\ made.has_check = LexGreater(version, <<1, 4, 10>>)
        /\ made.has_wait = LexGreater(version, <<1, 4, 19>>)
        /\ version = <<1, 4, 10>> => ~made.has_check /\ ~made.has_wait
        /\ version = <<1, 4, 11>> => made.has_check /\ ~made.has_wait
        /\ version = <<1, 4, 19>> => ~made.has_wait
        /\ version = <<1, 4, 20>> => made.has_check /\ made.has_wait

\* C3 witness: new has returned a handle for version 1.4.11.
C3_Witness ==
    npc = "ok" /\ version = <<1, 4, 11>> /\ made.has_check /\ ~made.has_wait

\* C4: with has_wait, run launches the tool with the caller's arguments in
\* their order followed by --wait as the one last argument, and neither opens
\* the lock file nor attempts the lock.
C4_NativeWait ==
    \A p \in Procs : ipt[p].has_wait =>
        /\ fd[p] = "none" /\ retries[p] = 0 /\ pc[p] \notin {"create", "flock"}
        /\ child[p] # <<>> =>
             /\ SubSeq(child[p], 1, Len(child[p]) - 1)
                   = MethodArgs(phase[p], call[p], ipt[p].has_check)
             /\ child[p][Len(child[p])] = W_wait
             /\ \A i \in 1 .. (Len(child[p]) - 1) : child[p][i] # W_wait
             /\ call[p] = RuleCall("append", Rule1, 0) =>
                  child[p] = <<W_t, FilterTable, W_A, INPUT, <<"-", "p">>, <<"t">>, W_wait>>

\* C4 witness: a subprocess launched in native-wait mode is alive.
C4_Witness ==
    \E p \in Procs : ipt[p].has_wait /\ pc[p] = "wait" /\ child[p] # <<>>
                     /\ call[p].op = "append"

\* C5: a failed lock attempt goes around the loop again only when the lock is
\* held elsewhere (would-block), whatever the number of attempts before; a
\* failure to open the lock file, or a lock attempt failing with another
\* error, returns that error at once with no subprocess launched.
C5_LockErrorPolicy ==
    [][\A p \in Procs :
         /\ retries'[p] > retries[p] =>
              /\ \E q \in Procs \ {p} : fd[q] = "locked"
              /\ pc'[p] = "flock" /\ fd'[p] = "open" /\ launches'[p] = 0
         /\ (pc[p] = "flock" /\ pc'[p] = "ret") =>
              /\ out'[p].kind \in NixErrnos \ {"EAGAIN"}
              /\ launches'[p] = 0 /\ child'[p] = <<>>
         /\ (pc[p] = "create" /\ pc'[p] \notin {"create", "flock"}) =>
              /\ pc'[p] = "ret" /\ out'[p].kind = "Io"
              /\ launches'[p] = 0 /\ child'[p] = <<>>
         /\ (pc[p] = "flock" /\ pc'[p] \notin {"flock", "ret"}) =>
              fd'[p] = "locked" /\ pc'[p] = "spawn"
      ]_vars

\* C5 witness: a call is still in the retry loop after as many refused
\* attempts as the model counts.
C5_Witness ==
    \E p \in Procs : pc[p] = "flock" /\ retries[p] = MaxRetry

\* The wrapping operations of process p whose result is the exit status.
StatusOps(p) == SingleOps \ (IF ipt[p].has_check THEN {} ELSE {"exists"})

\* C6: whenever the subprocess was launched and has terminated, run returns
\* Ok; and a wrapping operation (exists only with has_check) turns run's Ok
\* into Ok(true) for a zero exit status and Ok(false) for a non-zero one,
\* never into Err.
C6_NonZeroIsNotError ==
    [][\A p \in Procs :
         /\ (pc[p] = "wait" /\ pc'[p] # "wait") =>
              pc'[p] = "ret" /\ out'[p].kind = "Ok"
         /\ (pc[p] = "ret" /\ pc'[p] # "ret" /\ out[p].kind = "Ok"
                /\ call[p].op \in StatusOps(p)) =>
              /\ pc'[p] = "done"
              /\ ret'[p] = [kind |-> "Ok", value |-> out[p].success]
      ]_vars

\* C6 witness: a wrapping operation has returned Ok(false) after its
\* subprocess exited with a non-zero status.
C6_Witness ==
    \E p \in Procs :
        /\ pc[p] = "done" /\ call[p].op \in StatusOps(p) /\ launches[p] = 1
        /\ ret[p] = [kind |-> "Ok", value |-> FALSE]

\* C7: in either mode a failed launch makes run return the error, and no run
\* call makes a second launch attempt.
C7_LaunchNotRetried ==
    [][\A p \in Procs :
         /\ launches'[p] <= 1
         /\ (pc[p] = "spawn" /\ launches'[p] > launches[p] /\ child'[p] = <<>>) =>
              pc'[p] = "ret" /\ out'[p].kind = "Io"
         /\ (pc[p] = "spawn" /\ pc'[p] # "spawn") => launches'[p] = launches[p] + 1
      ]_vars

\* C7 witness: a run call has returned the error of its one failed launch.
C7_Witness ==
    \E p \in Procs : pc[p] = "ret" /\ out[p].kind = "Io" /\ launches[p] = 1

\* s holds a substring of the form v<digits>.<digits>.<digits>.
AllDigits(s, i, j) == i <= j /\ \A k \in i .. j : IsDigit(s[k])

HasVersionText(s) ==
    \E i \in 1 .. Len(s) :
        /\ s[i] = "v"
        /\ \E j \in (i + 2) .. Len(s) :
             /\ s[j] = "." /\ AllDigits(s, i + 1, j - 1)
             /\ \E k \in (j + 2) .. Len(s) :
                  /\ s[k] = "." /\ AllDigits(s, j + 1, k - 1)
                  /\ k + 1 <= Len(s) /\ IsDigit(s[k + 1])

\* The decimal text ds, leading zeros apart, names an integer an i32 holds.
RECURSIVE StripZeros(_)
StripZeros(ds) ==
    IF Len(ds) > 1 /\ ds[1] = "0" THEN StripZeros(Tail(ds)) ELSE ds

FitsI32(ds) ==
    /\ Len(ds) > 0
    /\ \A i \in 1 .. Len(ds) : IsAsciiDigit(ds[i])
    /\ LET t == StripZeros(ds) IN
       \/ Len(t) < Len(I32MaxDigits)
       \/ /\ Len(t) = Len(I32MaxDigits)
          /\ ~\E i \in 1 .. Len(t) :
                /\ DigitValue(t[i]) > DigitValue(I32MaxDigits[i])
                /\ \A j \in 1 .. (i - 1) : t[j] = I32MaxDigits[j]

NewReturned == npc \in {"ok", "err"}

\* The probe cannot succeed: the query was not launched, its output holds no
\* version text, or a component of the text found is no i32.
ProbeFails ==
    \/ version_output.status = "failed"
    \/ ~HasVersionText(version_output.stdout)
    \/ \E k \in 1 .. Len(versions) : ~FitsI32(versions[k])

\* C8: new returns an error and no IPTables value, not even a partial one,
\* exactly when the probe cannot succeed, and it has then launched the
\* version query once.
C8_ProbeFailureIsFatal ==
    /\ queries <= 1
    /\ NewReturned =>
         /\ queries = 1
         /\ ProbeFails <=> npc = "err"
         /\ npc = "err" => /\ made.kind \in {"Io", "Other", "Parse"}
                           /\ made = NewErr(made.kind)
         /\ npc = "ok" => made.kind = "Ok" /\ Len(version) = 3
    /\ ~NewReturned => made = NoHandle

\* C8 witness: on the output "no version here" new has returned an error.
C8_Witness ==
    /\ npc = "err" /\ made.kind = "Other"
    /\ version_output.stdout =
         <<"n", "o", " ", "v", "e", "r", "s", "i", "o", "n", " ", "h", "e", "r", "e">>

\* C9: no step of any public method changes a handle, and a run call goes
\* the way of its handle's has_wait: the lock file only without it, --wait
\* only with it.
C9_HandleImmutable ==
    [][\A p \in Procs :
         /\ ipt'[p] = ipt[p]
         /\ (pc'[p] \in {"create", "flock"} \/ fd'[p] # "none") => ~ipt[p].has_wait
         /\ child'[p] # <<>> =>
              (child'[p][Len(child'[p])] = W_wait <=> ipt[p].has_wait)
      ]_vars

\* C9 witness: a process makes the second run call of one operation.
C9_Witness ==
    \E p \in Procs :
        /\ call[p].op = "append_unique" /\ phase[p] = "append" /\ pc[p] = "wait"

\* C10: starting from a chain without rule r, whatever the interleaving of
\* concurrent append_unique and insert_unique calls for r, the chain holds r
\* at most once (stated for callers in advisory-lock mode on a host that
\* refuses no tool invocation, where every existence check answers for the
\* table as it is and every subprocess runs under the lock).
C10_UniqueUnderConcurrency ==
    (~flaky /\ \A p \in Procs : LockMode(p)) =>
        Count(table[INPUT].rules, Split(Rule1)) <= 1

(***************************************************************************)
(* Scheduling: a process inside a call keeps running, so each of its       *)
(* steps is taken when it stays possible.  The kernel owes a flock attempt *)
(* an answer (the lock or EAGAIN), never an error, and callers owe no new  *)
(* call.                                                                   *)
(***************************************************************************)
\* The flock attempt of p answered with the lock or with EAGAIN.
FlockAnswered(p) == Flock(p) /\ pc'[p] # "ret"

Fairness ==
    \A p \in Procs :
        /\ WF_vars(Create(p))
        /\ WF_vars(FlockAnswered(p))
        /\ WF_vars(Spawn(p))
        /\ WF_vars(Wait(p))
        /\ WF_vars(OpCont(p))
        /\ WF_vars(Finish(p))

\* append and delete_all, one call at a time.
DeleteAllCalls ==
    {c \in { RuleCall(op, r, 0) : op \in {"append", "delete_all"}, r \in Rules } : Room(c)}

NextDeleteAll ==
    \E p \in Procs :
        \/ /\ \A q \in Procs : pc[q] = "idle"
           /\ \E c \in DeleteAllCalls : CallOp(p, c)
        \/ Create(p)
        \/ Flock(p)
        \/ Spawn(p)
        \/ Wait(p)
        \/ OpCont(p)
        \/ Finish(p)

SpecDeleteAll == Init /\ [][NextDeleteAll]_vars /\ Fairness

\* C11: on a host that refuses no invocation and with one call at a time,
\* delete_all returns, and when it has returned Ok(true) its chain holds no
\* occurrence of its rule.
C11_DeleteAllTerminates ==
    /\ [](\A p \in Procs :
            (/\ ~flaky
             /\ call[p].op = "delete_all"
             /\ pc[p] = "done"
             /\ ret[p] = OkRet(TRUE))
            => Count(table[call[p].chain].rules, Split(call[p].rule)) = 0)
    /\ \A p \in Procs :
         (~flaky /\ call[p].op = "delete_all") ~> (pc[p] = "done")

\* exists(table, chain, rule) of call c on table tbl by a handle with the
\* given has_check, the tool launched and left to run undisturbed.
ExistsOn(tbl, c, has_check) ==
    MethodResult("exists", c,
                 OkOut(ToolCommand(tbl, MethodArgs("exists", c, has_check))),
                 has_check)

\* C12: on a host that refuses no invocation, what exists returns is what
\* the tool's -C check answers on the same table, whichever way the handle
\* computes it, and the listing fallback and the -C check agree on every
\* rule of every table reached.
C12_FallbackAgrees ==
    /\ \A p \in Procs :
         (/\ ~flaky
          /\ call[p].op = "exists"
          /\ pc[p] = "done"
          /\ ret[p].kind = "Ok")
         => ret[p] = ExistsOn(table, call[p], TRUE)
    /\ \A r \in Rules :
         ExistsOn(table, RuleCall("exists", r, 0), FALSE)
             = ExistsOn(table, RuleCall("exists", r, 0), TRUE)

\* The state of the run call of p in the state machine of advisory-lock
\* mode: INIT before the lock file is opened, ACQUIRING in the retry loop,
\* HELD with the lock and no subprocess yet, EXECUTING while the subprocess
\* lives, RELEASED after Ok(output), FAILED after an error; NONE outside a
\* run call of that mode.
RunState(p) ==
    IF ~LockMode(p) THEN "NONE"
    ELSE CASE pc[p] = "create" -> "INIT"
           [] pc[p] = "flock" -> "ACQUIRING"
           [] pc[p] = "spawn" -> "HELD"
           [] pc[p] = "wait" -> "EXECUTING"
           [] pc[p] = "ret" -> IF out[p].kind = "Ok" THEN "RELEASED" ELSE "FAILED"
           [] OTHER -> "NONE"

\* The transitions the state machine lists.
ListedTransitions ==
    { <<"INIT", "ACQUIRING">>, <<"ACQUIRING", "ACQUIRING">>, <<"ACQUIRING", "HELD">>,
      <<"ACQUIRING", "FAILED">>, <<"HELD", "EXECUTING">>, <<"EXECUTING", "RELEASED">> }

\* The transitions of the two statements that fail with `?`: the lock file
\* is not opened, the tool is not launched.
ErrorTransitions == { <<"INIT", "FAILED">>, <<"HELD", "FAILED">> }

\* A step moves every run call along one of the transitions; a run call
\* begins in INIT, and only after the one before it has ended.
FollowsOnly(transitions) ==
    \A p \in Procs :
        LET from == RunState(p)
            to == RunState(p)'
        IN \/ to = from
           \/ <<from, to>> \in transitions
           \/ /\ from \in {"NONE", "FAILED", "RELEASED"}
              /\ to \in {"NONE", "INIT"}

\* In advisory-lock mode a subprocess lives only in EXECUTING, was launched
\* without the wait flag, and its caller holds the lock; the lock is held in
\* HELD and in EXECUTING and in no other state.
LockedAroundChild ==
    \A p \in Procs :
        LockMode(p) =>
            /\ child[p] # <<>> => /\ RunState(p) = "EXECUTING"
                                  /\ \A i \in 1 .. Len(child[p]) : child[p][i] # W_wait
            /\ RunState(p) = "EXECUTING" => child[p] # <<>>
            /\ fd[p] = "locked" <=> RunState(p) \in {"HELD", "EXECUTING"}

\* C13 as stated: a run call in advisory-lock mode follows only the listed
\* transitions and ends only in FAILED or RELEASED; the subprocess is
\* launched after the lock is acquired, without the wait flag, and the lock
\* is held for its whole life.
C13_ListedOrderOnly ==
    /\ LockedAroundChild
    /\ [][FollowsOnly(ListedTransitions) /\ LockedAroundChild']_vars

\* C13, amended: the same with the two error transitions INIT -> FAILED
\* (the lock file cannot be opened) and HELD -> FAILED (the tool cannot be
\* launched; the lock is released) added.
C13_ProtocolOrder ==
    /\ LockedAroundChild
    /\ [][FollowsOnly(ListedTransitions \cup ErrorTransitions) /\ LockedAroundChild']_vars

\* One call has ended in RELEASED, another in FAILED after its launch of
\* the tool failed under the lock.
C13_Witness ==
    \E p, q \in Procs :
        /\ RunState(p) = "RELEASED"
        /\ RunState(q) = "FAILED" /\ launches[q] = 1

\* The callers in the retry loop.
Waiters == {p \in Procs : LockMode(p) /\ pc[p] = "flock"}

\* C14: in advisory-lock mode, whenever the lock is free every caller in the
\* retry loop can take it with its next attempt, however many attempts it
\* or the others have failed; and whenever another caller holds the lock, a
\* caller in the retry loop can fail one more attempt and stay in the loop,
\* and cannot take the lock, however many attempts it has failed.
C14_NoOrderAmongWaiters ==
    \A p \in Waiters :
        IF Holders = {}
        THEN ENABLED (Flock(p) /\ fd'[p] = "locked")
        ELSE /\ ENABLED (Flock(p) /\ pc'[p] = "flock" /\ fd'[p] = "open")
             /\ ~ENABLED (Flock(p) /\ fd'[p] = "locked")

\* The lock is free with two callers in the retry loop: one has failed as
\* many attempts as the model counts, the other came later and has failed
\* none.
C14_Witness ==
    /\ Holders = {}
    /\ \E p, q \in Waiters : retries[p] = MaxRetry /\ retries[q] = 0

\* append_replace has room when the chain is not full, or when it holds the
\* rule already on a host that refuses nothing: the rule is then deleted
\* before it is appended.
RoomReplace(c) ==
    IF c.op = "append_replace"
    THEN \/ Len(table[INPUT].rules) < MaxChain
         \/ ~flaky /\ Count(table[INPUT].rules, Split(c.rule)) > 0
    ELSE Room(c)

\* append, append_replace and flush_chain, one call at a time.
ReplaceCalls ==
    {c \in { RuleCall(op, r, 0) : op \in {"append", "append_replace"}, r \in Rules }
           \cup {ChainCall("flush_chain", INPUT, <<>>)} : RoomReplace(c)}

NextReplace ==
    \E p \in Procs :
        \/ /\ \A q \in Procs : pc[q] = "idle"
           /\ \E c \in ReplaceCalls : CallOp(p, c)
        \/ Create(p)
        \/ Flock(p)
        \/ Spawn(p)
        \/ Wait(p)
        \/ OpCont(p)
        \/ Finish(p)

SpecReplace == Init /\ [][NextReplace]_vars

\* append_replace of p has returned Ok(true) on a host that refuses nothing.
Replaced(p) ==
    /\ ~flaky
    /\ call[p].op = "append_replace"
    /\ pc[p] = "done"
    /\ ret[p] = OkRet(TRUE)

\* The rule is the last of its chain, which holds it max(1, before) times.
ReplacedInPlace ==
    \A p \in Procs :
        Replaced(p) =>
            LET rs == table[call[p].chain].rules
                ws == Split(call[p].rule)
            IN /\ Len(rs) > 0
               /\ rs[Len(rs)] = ws
               /\ Count(rs, ws) = IF before[p] > 1 THEN before[p] ELSE 1

\* The delete of an append_replace has returned an error: append_replace
\* returns that error, and launches nothing more.
DeleteErrorEnds ==
    \A p \in Procs :
        (/\ call[p].op = "append_replace"
         /\ phase[p] = "delete"
         /\ pc[p] = "ret"
         /\ out[p].kind # "Ok"
         /\ pc'[p] # "ret")
        => /\ pc'[p] = "done"
           /\ ret'[p] = ErrRet(out[p].kind)
           /\ table' = table

\* C15: with one call at a time and no invocation refused, once
\* append_replace has returned Ok(true) its rule is the last rule of the
\* chain and occurs max(1, number before the call) times; and when its
\* delete step returns an error, append_replace returns the error without
\* attempting the append.
C15_AppendReplace ==
    /\ ReplacedInPlace
    /\ [][DeleteErrorEnds /\ ReplacedInPlace']_vars

\* append_replace has returned Ok(true) for a rule its chain held twice.
C15_Witness == \E p \in Procs : Replaced(p) /\ before[p] = 2

\* The version triples the flags of a handle are compared with.
Triples == (0 .. MaxMajor) \X (0 .. MaxMinor) \X (0 .. MaxPatch)

LexLeq(u, v) == u = v \/ LexGreater(v, u)

\* The flags of triple u are set only if those of the handle h are.
FlagsLeq(u, h) ==
    /\ HasCheck(u[1], u[2], u[3]) => h.has_check
    /\ HasWait(u[1], u[2], u[3]) => h.has_wait

\* The flags of the handle h are set only if those of triple u are.
FlagsGeq(u, h) ==
    /\ h.has_check => HasCheck(u[1], u[2], u[3])
    /\ h.has_wait => HasWait(u[1], u[2], u[3])

\* C16: the flags are monotonic in the version: when new has made a handle
\* for version v, every triple u <= v with a flag set finds that flag set in
\* the handle, and every triple u >= v has each flag set that the handle has.
C16_FlagsMonotonic ==
    npc = "ok" =>
        \A u \in Triples :
            /\ LexLeq(u, version) => FlagsLeq(u, made)
            /\ LexLeq(version, u) => FlagsGeq(u, made)

\* new has made a handle for a version above 1.4.19 whose minor and patch
\* numbers are below those of 1.4.10.
C16_Witness ==
    npc = "ok" /\ version = <<2, 0, 0>> /\ made.has_check /\ made.has_wait

(***************************************************************************)
(* new, then the methods on the handle it returned.                        *)
(***************************************************************************)
\* The caller of new takes the handle: every process calls its methods with
\* it, and the locals of new are gone.
Adopt ==
    /\ npc = "ok"
    /\ npc' = "used"
    /\ ipt' = [p \in Procs |-> [cmd |-> made.cmd, has_check |-> made.has_check,
                                has_wait |-> made.has_wait]]
    /\ version_output' = NoOutput
    /\ versions' = <<>>
    /\ version' = <<>>
    /\ made' = NoHandle
    /\ UNCHANGED <<is_ipv6, queries>>
    /\ UNCHANGED <<pc, call, phase, fd, child, out, ret, retries, launches, table,
                   flaky, before>>

\* exists and append on the handle, one call at a time.
HandleCalls ==
    {c \in { RuleCall(op, r, 0) : op \in {"exists", "append"}, r \in Rules } : Room(c)}

NextHandle ==
    \/ NewQuery
    \/ NewCaptures
    \/ NewParse
    \/ NewBuild
    \/ Adopt
    \/ \E p \in Procs :
        \/ /\ npc = "used"
           /\ \A q \in Procs : pc[q] = "idle"
           /\ \E c \in HandleCalls : CallOp(p, c)
        \/ Create(p)
        \/ Flock(p)
        \/ Spawn(p)
        \/ Wait(p)
        \/ OpCont(p)
        \/ Finish(p)

SpecHandle == InitNew /\ [][NextHandle]_vars

\* The subprocess of p is the listing of exists_old_version.
ListingChild(p) == phase[p] = "exists" /\ child[p] # <<>> /\ child[p][3] = W_S

\* C17: every handle new returns, and every handle in use, has has_check
\* when it has has_wait; the listing of exists_old_version runs only for a
\* caller in advisory-lock mode, under the lock; and the existence check of
\* a handle with has_wait is the tool's -C check of the chain and rule
\* followed by --wait.
C17_WaitImpliesCheck ==
    /\ npc = "ok" => (made.has_wait => made.has_check)
    /\ \A p \in Procs :
         /\ ipt[p].has_wait => ipt[p].has_check
         /\ ListingChild(p) => LockMode(p) /\ fd[p] = "locked"
         /\ (ipt[p].has_wait /\ phase[p] = "exists" /\ child[p] # <<>>)
            => child[p] = Append(RuleArgs(W_C, call[p]), W_wait)

\* A handle new returned with both flags checks existence with -C and
\* --wait.
C17_Witness ==
    /\ npc = "used"
    /\ \E p \in Procs :
         /\ ipt[p].has_wait /\ ipt[p].has_check
         /\ phase[p] = "exists" /\ child[p] # <<>>
         /\ child[p][3] = W_C

(***************************************************************************)
(* Concurrent callers of run under the scheduling of Fairness.             *)
(***************************************************************************)
LiveCalls == {ChainCall("flush_table", <<>>, <<>>)}

NextLive ==
    \E p \in Procs :
        \/ \E c \in LiveCalls : CallOp(p, c)
        \/ Create(p)
        \/ Flock(p)
        \/ Spawn(p)
        \/ Wait(p)
        \/ OpCont(p)
        \/ Finish(p)

SpecLive == Init /\ [][NextLive]_vars /\ Fairness

\* The run call of p is in progress in advisory-lock mode.
InRun(p) == RunState(p) \in {"INIT", "ACQUIRING", "HELD", "EXECUTING"}

\* No other run call of advisory-lock mode is in progress.
Alone(p) == \A q \in Procs \ {p} : ~InRun(q)

\* C18 as stated: whenever the lock is free and a call is retrying, some
\* call eventually acquires the lock; a call that starts with the lock free
\* and no competitor acquires the lock with its first attempt and ends in
\* RELEASED; and a call that stays in the retry loop forever does so only
\* when the lock is, from some time on, never released.
C18_GlobalProgress ==
    /\ (Holders = {} /\ Waiters # {}) ~> (Holders # {})
    /\ [][\A p \in Waiters :
            (Alone(p) /\ retries[p] = 0 /\ pc'[p] # "flock") => fd'[p] = "locked"]_vars
    /\ \A p \in Procs :
         (RunState(p) = "INIT" /\ Alone(p)) ~> (RunState(p) = "RELEASED" \/ ~Alone(p))
    /\ \A p \in Procs :
         <>[](RunState(p) = "ACQUIRING") => <>[](Holders # {})

\* C18, amended: whenever the lock is free and a call is retrying,
\* eventually some call holds the lock or a call has ended in FAILED; a
\* call alone in the protocol is never refused the lock, and it ends, in
\* RELEASED or in FAILED, unless a competitor arrives; every call that holds
\* the lock releases it; and a call that stays in the retry loop forever
\* finds the lock held at attempts without end.
C18_Progress ==
    /\ (Holders = {} /\ Waiters # {})
           ~> (Holders # {} \/ \E p \in Procs : RunState(p) = "FAILED")
    /\ [](\A p \in Waiters : Alone(p) => ~ENABLED (Flock(p) /\ pc'[p] = "flock"))
    /\ \A p \in Procs :
         (InRun(p) /\ Alone(p)) ~> (RunState(p) \in {"RELEASED", "FAILED"} \/ ~Alone(p))
    /\ \A p \in Procs : (fd[p] = "locked") ~> (fd[p] = "none")
    /\ \A p \in Procs :
         <>[](RunState(p) = "ACQUIRING") => []<>(Holders # {})

\* The lock is free again while a call that was refused it is still in the
\* retry loop.
C18_Witness == Holders = {} /\ \E p \in Waiters : retries[p] > 0

=============================================================================
